---- MODULE Spec2Model ----
(***************************************************************************)
(* Model of the gmail-mcp server: the draft store kept in drafts.json and  *)
(* the tools of server.py that read and write it, the confirmation gate of *)
(* the sending and state-changing tools, and the reply / forward / body    *)
(* extraction helpers of gmail_client.py.                                  *)
(*                                                                         *)
(* Strings the code inspects character by character (subjects, header      *)
(* values) are sequences of one-character strings.  Optional[...] values   *)
(* are sets with at most one element: {} is None, {v} is the value v.      *)
(* Every other string is a sequence too, of opaque pieces, so that the     *)
(* code's truthiness tests (`if x:`) read the same on all of them.         *)
(***************************************************************************)
EXTENDS Integers, Sequences, FiniteSets, TLC

VARIABLES
    drafts_file,  \* DRAFTS_FILE on disk: [state, doc], state absent / json / malformed
    io_faults,    \* whether file I/O on DRAFTS_FILE may fail in this run
    pc,           \* pc[p]: position of process p inside the tool it runs
    call,         \* call[p]: the tool process p runs (or ran last) and its arguments
    drafts,       \* drafts[p]: the local `drafts` dict of the running tool
    result,       \* result[p]: what the last tool call returned or raised
    effects,      \* effects[p]: I/O performed so far by the current call of p
    nuuid,        \* number of uuid4() values generated so far
    ncalls,       \* number of tool invocations so far
    sendLog,      \* calls of users().messages().send(...).execute(), in order
    mailbox,      \* the remote message the mail tools address: threadId, snippet,
                  \* headers, payload (part tree)
    labelIds,     \* the remote label set of that message
    created,      \* history: draft id -> fields, for every draft_email that returned
    removed       \* history: ids a delete_draft or send_draft call reported removed

vars == <<drafts_file, io_faults, pc, call, drafts, result, effects, nuuid, ncalls,
          sendLog, mailbox, labelIds, created, removed>>

-----------------------------------------------------------------------------
(* Bounds *)

NumProcs == 2
MaxDrafts == 2
MaxCalls == 3
MaxToolCalls == 2
MaxSubjectLen == 4
MaxRefLen == 4
MaxParts == 2

Procs == 1..NumProcs
DraftIds == 1..MaxDrafts

-----------------------------------------------------------------------------
(* Values *)

None == {}
Some(v) == {v}
IsNone(o) == o = {}
Get(o) == CHOOSE v \in o : TRUE

\* Python dict operations on a mapping (a function with a finite domain).
EmptyDict == [k \in {} |-> {}]
Keys(m) == DOMAIN m
DictSet(m, k, v) == [x \in (DOMAIN m) \cup {k} |-> IF x = k THEN v ELSE m[x]]
DictPop(m, k) == [x \in (DOMAIN m) \ {k} |-> m[x]]

\* Attachment descriptors as they arrive in a draft.
AttPath == [kind |-> "path", path |-> "/tmp/a.txt", filename |-> ""]
AttInlineNoName == [kind |-> "content_base64", path |-> "", filename |-> ""]

\* The arguments of draft_email the model draws from.
DraftInputs ==
    { [to |-> <<"a@x">>, subject |-> <<"h", "i">>, body |-> <<"b1">>,
       html_body |-> None, attachments |-> None],
      [to |-> <<"b@x">>, subject |-> <<>>, body |-> <<"b2">>,
       html_body |-> Some(<<"<p>b2</p>">>), attachments |-> Some(<<AttPath>>)] }

DraftOps == {"draft_email", "list_drafts", "delete_draft", "send_draft"}

NoCall == [op |-> "none", draft_id |-> 0, confirm |-> FALSE, input |-> None]
NoEffects ==
    [loaded |-> FALSE, saved |-> FALSE, transport |-> FALSE, message_id |-> 0,
     fetched |-> FALSE, mutated |-> FALSE]
Pending == [status |-> "pending"]
Raised(e) == [status |-> "raised", error |-> e]
Returned(v) == [status |-> "returned", value |-> v]

-----------------------------------------------------------------------------
(* The drafts file: json.dump / json.load, _load_drafts, _save_drafts *)

AbsentFile == [state |-> "absent", doc |-> {}]

\* json.dump of the drafts dict: a JSON object, one member per draft id.
JsonDump(m) == {<<k, m[k]>> : k \in DOMAIN m}

\* json.load of a JSON object: the dict of its members.
JsonLoad(doc) ==
    [k \in {e[1] : e \in doc} |-> (CHOOSE e \in doc : e[1] = k)[2]]

\* Outcomes of one read of / one write to DRAFTS_FILE.
ReadOutcomes == IF io_faults THEN {"ok", "IOError"} ELSE {"ok"}
WriteOutcomes == IF io_faults THEN {"ok", "IOError", "partial"} ELSE {"ok"}

\* _load_drafts(): the dict in the file; {} when the file is absent, cannot be
\* read or does not parse.
LoadDrafts(file, outcome) ==
    IF file.state = "json" /\ outcome = "ok" THEN JsonLoad(file.doc) ELSE EmptyDict

\* _save_drafts(drafts): the file after the call.  An IOError is logged and
\* swallowed: on a failed open the file is as before, on a failed write it
\* has been truncated by open(..., "w") and holds no complete document.
SaveDrafts(file, d, outcome) ==
    CASE outcome = "ok" -> [state |-> "json", doc |-> JsonDump(d)]
      [] outcome = "IOError" -> file
      [] OTHER -> [state |-> "malformed", doc |-> {}]

\* The persisted mapping, as a reader of an intact file sees it.
Stored == LoadDrafts(drafts_file, "ok")

-----------------------------------------------------------------------------
(* gmail_client.send_email *)

\* `if x:` on an Optional[str] or Optional[list].
Truthy(o) == o # None /\ Get(o) # <<>>

RECURSIVE JoinSpace(_)
\* " ".join(list) on a list of strings.
JoinSpace(l) ==
    IF l = <<>> THEN <<>>
    ELSE IF Len(l) = 1 THEN l[1]
    ELSE l[1] \o <<" ">> \o JoinSpace(Tail(l))

\* [ref for ref in references if ref]
NonEmptyRefs(l) == SelectSeq(l, LAMBDA r : r # <<>>)

\* _normalize_references(references) for the list the callers pass (the str
\* branch is not reached from this repository's callers).
NormalizeReferences(references) ==
    IF ~Truthy(references) THEN None
    ELSE Some(JoinSpace(NonEmptyRefs(Get(references))))

\* What resolving one attachment does: "ok" or the exception it raises.
\* exists: whether os.path.exists(resolved_path) holds at the time of the call.
ResolveAttachment(a, exists) ==
    IF a.kind = "content_base64"
    THEN IF a.filename = "" THEN "ValueError" ELSE "ok"
    ELSE IF a.path = "" THEN "ValueError"
         ELSE IF ~exists THEN "FileNotFoundError" ELSE "ok"

\* _add_attachments(message, attachments): "ok", or the first exception raised
\* walking the list in order.
AddAttachments(attachments, exists) ==
    IF ~Truthy(attachments) THEN "ok"
    ELSE LET l == Get(attachments)
             bad == {i \in 1..Len(l) : ResolveAttachment(l[i], exists) # "ok"}
         IN IF bad = {} THEN "ok"
            ELSE ResolveAttachment(l[CHOOSE i \in bad : \A j \in bad : i <= j], exists)

\* The EmailMessage send_email builds, with the threadId of the request body.
ComposeMessage(to, subject, body, html_body, attachments, thread_id, in_reply_to, references) ==
    LET base == [h \in {"To", "Subject"} |-> IF h = "To" THEN to ELSE subject]
        withIrt == IF Truthy(in_reply_to)
                   THEN DictSet(base, "In-Reply-To", Get(in_reply_to)) ELSE base
        refs == NormalizeReferences(references)
        hdrs == IF Truthy(refs) THEN DictSet(withIrt, "References", Get(refs))
                ELSE withIrt
    IN [headers |-> hdrs,
        body |-> body,
        html |-> IF Truthy(html_body) THEN html_body ELSE None,
        attachments |-> attachments,
        threadId |-> IF Truthy(thread_id) THEN thread_id ELSE None]

\* send_email(...): the exception it raises ("none" when it returns) and whether
\* users().messages().send was called.  http: what the remote call does.
SendEmail(attachments, exists, http) ==
    LET att == AddAttachments(attachments, exists)
    IN IF att # "ok" THEN [raised |-> att, called |-> FALSE]
       ELSE IF http # "ok" THEN [raised |-> "HttpError", called |-> TRUE]
       ELSE [raised |-> "none", called |-> TRUE]

HttpOutcomes == {"ok", "HttpError"}

-----------------------------------------------------------------------------
(* Strings: str.lower, str.startswith, str.strip, str.split, html.escape *)

IsSpace(c) == c \in {" ", "\t", "\n"}

LowerChar(c) ==
    CASE c = "R" -> "r" [] c = "E" -> "e" [] c = "F" -> "f"
      [] c = "W" -> "w" [] c = "D" -> "d" [] OTHER -> c

\* s.lower()
Lower(s) == [i \in 1..Len(s) |-> LowerChar(s[i])]

\* s.startswith(prefix)
StartsWith(s, prefix) ==
    Len(s) >= Len(prefix) /\ SubSeq(s, 1, Len(prefix)) = prefix

RECURSIVE LStrip(_)
LStrip(s) == IF s # <<>> /\ IsSpace(Head(s)) THEN LStrip(Tail(s)) ELSE s

RECURSIVE RStrip(_)
RStrip(s) ==
    IF s # <<>> /\ IsSpace(s[Len(s)]) THEN RStrip(SubSeq(s, 1, Len(s) - 1)) ELSE s

\* s.strip()
Strip(s) == RStrip(LStrip(s))

\* Length of the run of non-whitespace characters s starts with.
RECURSIVE WordLen(_)
WordLen(s) == IF s = <<>> \/ IsSpace(Head(s)) THEN 0 ELSE 1 + WordLen(Tail(s))

RECURSIVE SplitWs(_)
\* s.split(): the maximal runs of non-whitespace characters, in order.
SplitWs(s) ==
    IF s = <<>> THEN <<>>
    ELSE IF IsSpace(Head(s)) THEN SplitWs(Tail(s))
    ELSE <<SubSeq(s, 1, WordLen(s))>> \o SplitWs(SubSeq(s, WordLen(s) + 1, Len(s)))

EscapeChar(c) ==
    CASE c = "&" -> "&amp;" [] c = "<" -> "&lt;" [] c = ">" -> "&gt;"
      [] c = "\"" -> "&quot;" [] c = "'" -> "&#x27;" [] OTHER -> c

\* html.escape(s)
HtmlEscape(s) == [i \in 1..Len(s) |-> EscapeChar(s[i])]

RECURSIVE JoinNl(_)
\* "\n".join(list)
JoinNl(l) ==
    IF l = <<>> THEN <<>>
    ELSE IF Len(l) = 1 THEN l[1]
    ELSE l[1] \o <<"\n">> \o JoinNl(Tail(l))

-----------------------------------------------------------------------------
(* The remote message and gmail_client's reply / forward derivations *)

\* headers.get(name, default) on the header dict of _get_message_metadata.
HGet(headers, name, default) ==
    IF name \in DOMAIN headers THEN headers[name] ELSE default

\* headers.get(name): None when the header is absent.
HGetOpt(headers, name) ==
    IF name \in DOMAIN headers THEN Some(headers[name]) ELSE None

Leaf(mime, data) == [mimeType |-> mime, data |-> data, parts |-> <<>>]

DefaultHeaders ==
    [h \in {"From", "To", "Date", "Subject", "Message-ID"} |->
        CASE h = "From" -> <<"A", " ", "<", "a@x", ">">>
          [] h = "To" -> <<"me@x">>
          [] h = "Date" -> <<"Mon">>
          [] h = "Subject" -> <<"h", "i">>
          [] OTHER -> <<"<c>">>]

DefaultMessage ==
    [threadId |-> Some(<<"t1">>), snippet |-> <<"snip">>, headers |-> DefaultHeaders,
     payload |-> Leaf("text/plain", "QQ==")]

RePrefix == <<"R", "e", ":", " ">>
FwdPrefix == <<"F", "w", "d", ":", " ">>

\* Mutant of ReplySubject: the prefix test without .lower().
ReplySubject_CaseSensitive(subject) ==
    IF ~StartsWith(subject, <<"r", "e", ":">>)
    THEN Strip(RePrefix \o subject)
    ELSE subject

\* reply_to_message: subject = headers.get("Subject", "");
\* if not subject.lower().startswith("re:"): subject = f"Re: {subject}".strip()
ReplySubject(subject) ==
    IF ~StartsWith(Lower(subject), <<"r", "e", ":">>)
    THEN Strip(RePrefix \o subject)
    ELSE subject

\* forward_message: the same with "fwd:" and f"Fwd: {subject}".strip()
ForwardSubject(subject) ==
    IF ~StartsWith(Lower(subject), <<"f", "w", "d", ":">>)
    THEN Strip(FwdPrefix \o subject)
    ELSE subject

\* Mutant of ReplyReferences: the Message-ID is appended only inside the
\* `if references_header:` block.
ReplyReferences_AppendInsideIf(headers) ==
    LET message_id_header == HGetOpt(headers, "Message-ID")
        references_header == HGet(headers, "References", <<>>)
    IN IF references_header # <<>>
       THEN SplitWs(references_header)
            \o (IF Truthy(message_id_header) THEN <<Get(message_id_header)>> ELSE <<>>)
       ELSE <<>>

\* reply_to_message: the `references` list handed to send_email.
ReplyReferences(headers) ==
    LET message_id_header == HGetOpt(headers, "Message-ID")
        references_header == HGet(headers, "References", <<>>)
        split == IF references_header # <<>> THEN SplitWs(references_header) ELSE <<>>
    IN IF Truthy(message_id_header) THEN Append(split, Get(message_id_header))
       ELSE split

\* reply_to_message: the recipient, to_override or headers.get("From").
ReplyTo(headers, to_override) ==
    IF Truthy(to_override) THEN to_override ELSE HGetOpt(headers, "From")

\* forward_message: forwarded_text
ForwardText(msg, body, include_snippet) ==
    LET h == msg.headers
        block == << <<>>, <<"---- Forwarded message ----">>,
                    <<"From: ">> \o HGet(h, "From", <<>>),
                    <<"Date: ">> \o HGet(h, "Date", <<>>),
                    <<"Subject: ">> \o HGet(h, "Subject", <<>>),
                    <<"To: ">> \o HGet(h, "To", <<>>),
                    <<>> >>
        full == IF include_snippet THEN Append(block, msg.snippet) ELSE block
    IN body \o <<"\n">> \o JoinNl(full)

\* forward_message: forwarded_html (None when the caller gave no html_body)
ForwardHtml(msg, html_body, include_snippet) ==
    IF html_body = None THEN None
    ELSE LET h == msg.headers
             head == Get(html_body)
                     \o <<"<hr><p><strong>Forwarded message</strong></p>">>
                     \o <<"<p>From: ">> \o HtmlEscape(HGet(h, "From", <<>>)) \o <<"<br>">>
                     \o <<"Date: ">> \o HtmlEscape(HGet(h, "Date", <<>>)) \o <<"<br>">>
                     \o <<"Subject: ">> \o HtmlEscape(HGet(h, "Subject", <<>>))
                     \o <<"<br>">>
                     \o <<"To: ">> \o HtmlEscape(HGet(h, "To", <<>>)) \o <<"</p>">>
         IN Some(IF include_snippet
                 THEN head \o <<"<pre>">> \o HtmlEscape(msg.snippet) \o <<"</pre>">>
                 ELSE head)

-----------------------------------------------------------------------------
(* Tool invocation *)

DraftCalls ==
    {[op |-> "draft_email", draft_id |-> 0, confirm |-> FALSE, input |-> Some(m)] :
        m \in DraftInputs}
    \cup {[op |-> "list_drafts", draft_id |-> 0, confirm |-> FALSE, input |-> None]}
    \cup {[op |-> "delete_draft", draft_id |-> i, confirm |-> FALSE, input |-> None] :
        i \in DraftIds}
    \cup {[op |-> "send_draft", draft_id |-> i, confirm |-> c, input |-> None] :
        i \in DraftIds, c \in BOOLEAN}

\* First position of each tool.
Entry(op) ==
    CASE op = "draft_email" -> "draft_load"
      [] op = "list_drafts" -> "list_load"
      [] op = "delete_draft" -> "delete_load"
      [] op = "send_draft" -> "send_gate"
      [] op = "reply_message" -> "reply_message"
      [] op = "forward_message" -> "forward_message"
      [] op = "trash_message" -> "trash_message"
      [] op = "modify_labels" -> "modify_labels"
      [] op = "mark_as_read" -> "mark_as_read"
      [] op = "mark_as_unread" -> "mark_as_unread"
      [] op = "get_message" -> "get_message"
      [] op = "get_thread" -> "get_thread"

\* draft_email calls that have not yet drawn their uuid.
DraftsInFlight == {q \in Procs : pc[q] \in {"draft_load", "draft_save"}}

\* A caller starts tool call c on process p.
Start(p, c) ==
    /\ pc[p] = "idle"
    /\ call' = [call EXCEPT ![p] = c]
    /\ pc' = [pc EXCEPT ![p] = Entry(c.op)]
    /\ result' = [result EXCEPT ![p] = Pending]
    /\ effects' = [effects EXCEPT ![p] = NoEffects]
    /\ drafts' = [drafts EXCEPT ![p] = EmptyDict]
    /\ ncalls' = ncalls + 1
    /\ UNCHANGED <<drafts_file, io_faults, nuuid, sendLog, created, removed, mailbox,
                   labelIds>>

\* A caller starts one of the draft tools on process p.
Invoke(p) ==
    /\ ncalls < MaxCalls
    /\ \E c \in DraftCalls :
        /\ c.op = "draft_email" => nuuid + Cardinality(DraftsInFlight) < MaxDrafts
        /\ Start(p, c)

-----------------------------------------------------------------------------
(* server.draft_email *)

\* drafts = _load_drafts()
DraftLoad(p) ==
    /\ pc[p] = "draft_load"
    /\ \E o \in ReadOutcomes :
        drafts' = [drafts EXCEPT ![p] = LoadDrafts(drafts_file, o)]
    /\ effects' = [effects EXCEPT ![p].loaded = TRUE]
    /\ pc' = [pc EXCEPT ![p] = "draft_save"]
    /\ UNCHANGED <<drafts_file, io_faults, call, result, nuuid, ncalls, sendLog,
                   created, removed, mailbox, labelIds>>

\* draft_id = str(uuid.uuid4()); drafts[draft_id] = {...}; _save_drafts(drafts);
\* return {"draft_id": ..., "preview": ...}
DraftSave(p) ==
    /\ pc[p] = "draft_save"
    /\ LET id == nuuid + 1
           d2 == DictSet(drafts[p], id, Get(call[p].input))
       IN /\ \E o \in WriteOutcomes :
                drafts_file' = SaveDrafts(drafts_file, d2, o)
          /\ drafts' = [drafts EXCEPT ![p] = d2]
          /\ result' = [result EXCEPT
                 ![p] = Returned([draft_id |-> id, preview |-> d2[id]])]
          /\ created' = DictSet(created, id, d2[id])
    /\ nuuid' = nuuid + 1
    /\ effects' = [effects EXCEPT ![p].saved = TRUE]
    /\ pc' = [pc EXCEPT ![p] = "idle"]
    /\ UNCHANGED <<io_faults, call, ncalls, sendLog, removed, mailbox, labelIds>>

-----------------------------------------------------------------------------
(* server.list_drafts *)

ListDrafts(p) ==
    /\ pc[p] = "list_load"
    /\ \E o \in ReadOutcomes :
        LET d == LoadDrafts(drafts_file, o)
        IN /\ drafts' = [drafts EXCEPT ![p] = d]
           /\ result' = [result EXCEPT
                  ![p] = Returned([drafts |-> d, count |-> Cardinality(Keys(d))])]
    /\ effects' = [effects EXCEPT ![p].loaded = TRUE]
    /\ pc' = [pc EXCEPT ![p] = "idle"]
    /\ UNCHANGED <<drafts_file, io_faults, call, nuuid, ncalls, sendLog, created,
                   removed, mailbox, labelIds>>

-----------------------------------------------------------------------------
(* server.delete_draft *)

\* Mutant of DeleteLoad: drafts.pop(draft_id, None) and the save come before
\* the test, so an unknown id rewrites the file and then raises.
DeleteLoad_SaveFirst(p) ==
    /\ pc[p] = "delete_load"
    /\ \E o \in ReadOutcomes :
        LET d == LoadDrafts(drafts_file, o)
        IN /\ drafts' = [drafts EXCEPT ![p] = d]
           /\ IF call[p].draft_id \notin Keys(d)
              THEN /\ result' = [result EXCEPT ![p] = Raised("DraftNotFound")]
                   /\ pc' = [pc EXCEPT ![p] = "idle"]
                   /\ drafts_file' = SaveDrafts(drafts_file, d, "ok")
                   /\ effects' = [effects EXCEPT ![p].loaded = TRUE, ![p].saved = TRUE]
              ELSE /\ pc' = [pc EXCEPT ![p] = "delete_save"]
                   /\ effects' = [effects EXCEPT ![p].loaded = TRUE]
                   /\ UNCHANGED <<result, drafts_file>>
    /\ UNCHANGED <<io_faults, call, nuuid, ncalls, sendLog, created, removed, mailbox, labelIds>>

\* drafts = _load_drafts(); if draft_id not in drafts: raise ValueError
DeleteLoad(p) ==
    /\ pc[p] = "delete_load"
    /\ \E o \in ReadOutcomes :
        LET d == LoadDrafts(drafts_file, o)
        IN /\ drafts' = [drafts EXCEPT ![p] = d]
           /\ IF call[p].draft_id \notin Keys(d)
              THEN /\ result' = [result EXCEPT ![p] = Raised("DraftNotFound")]
                   /\ pc' = [pc EXCEPT ![p] = "idle"]
              ELSE /\ pc' = [pc EXCEPT ![p] = "delete_save"]
                   /\ UNCHANGED result
    /\ effects' = [effects EXCEPT ![p].loaded = TRUE]
    /\ UNCHANGED <<drafts_file, io_faults, call, nuuid, ncalls, sendLog, created,
                   removed, mailbox, labelIds>>

\* deleted = drafts.pop(draft_id); _save_drafts(drafts); return {...}
DeleteSave(p) ==
    /\ pc[p] = "delete_save"
    /\ LET id == call[p].draft_id
           d2 == DictPop(drafts[p], id)
       IN /\ \E o \in WriteOutcomes :
                drafts_file' = SaveDrafts(drafts_file, d2, o)
          /\ drafts' = [drafts EXCEPT ![p] = d2]
          /\ result' = [result EXCEPT
                 ![p] = Returned([deleted |-> TRUE, draft_id |-> id,
                                  preview |-> drafts[p][id]])]
          /\ removed' = removed \cup {id}
    /\ effects' = [effects EXCEPT ![p].saved = TRUE]
    /\ pc' = [pc EXCEPT ![p] = "idle"]
    /\ UNCHANGED <<io_faults, call, nuuid, ncalls, sendLog, created, mailbox, labelIds>>

-----------------------------------------------------------------------------
(* server.send_draft *)

\* Mutant of SendGate: the confirm test is missing.
SendGate_Ungated(p) ==
    /\ pc[p] = "send_gate"
    /\ pc' = [pc EXCEPT ![p] = "send_load"]
    /\ UNCHANGED <<drafts_file, io_faults, call, drafts, result, effects, nuuid, ncalls,
                   sendLog, created, removed, mailbox, labelIds>>

\* if not confirm: raise ValueError("Must pass confirm=true to send email")
SendGate(p) ==
    /\ pc[p] = "send_gate"
    /\ IF ~call[p].confirm
       THEN /\ result' = [result EXCEPT ![p] = Raised("ConfirmationRequired")]
            /\ pc' = [pc EXCEPT ![p] = "idle"]
       ELSE /\ pc' = [pc EXCEPT ![p] = "send_load"]
            /\ UNCHANGED result
    /\ UNCHANGED <<drafts_file, io_faults, call, drafts, effects, nuuid, ncalls,
                   sendLog, created, removed, mailbox, labelIds>>

\* drafts = _load_drafts(); if draft_id not in drafts: raise ValueError
SendLoad(p) ==
    /\ pc[p] = "send_load"
    /\ \E o \in ReadOutcomes :
        LET d == LoadDrafts(drafts_file, o)
        IN /\ drafts' = [drafts EXCEPT ![p] = d]
           /\ IF call[p].draft_id \notin Keys(d)
              THEN /\ result' = [result EXCEPT ![p] = Raised("DraftNotFound")]
                   /\ pc' = [pc EXCEPT ![p] = "idle"]
              ELSE /\ pc' = [pc EXCEPT ![p] = "send_email"]
                   /\ UNCHANGED result
    /\ effects' = [effects EXCEPT ![p].loaded = TRUE]
    /\ UNCHANGED <<drafts_file, io_faults, call, nuuid, ncalls, sendLog, created,
                   removed, mailbox, labelIds>>

\* Mutant of SendTransport: the draft is popped and the file saved before
\* send_email is called.
SendTransport_RemoveFirst(p) ==
    /\ pc[p] = "send_email"
    /\ \E exists \in BOOLEAN, http \in HttpOutcomes :
        LET id == call[p].draft_id
            d == drafts[p][id]
            r == SendEmail(d.attachments, exists, http)
            mid == Len(sendLog) + 1
            entry == [draft_id |-> id, ok |-> r.raised = "none", id |-> mid,
                      in_reply_to |-> None, references |-> None,
                      message |-> ComposeMessage(d.to, d.subject, d.body, d.html_body,
                                                 d.attachments, None, None, None)]
        IN /\ drafts_file' = SaveDrafts(drafts_file, DictPop(drafts[p], id), "ok")
           /\ sendLog' = IF r.called THEN Append(sendLog, entry) ELSE sendLog
           /\ IF r.raised # "none"
              THEN /\ result' = [result EXCEPT ![p] = Raised(r.raised)]
                   /\ pc' = [pc EXCEPT ![p] = "idle"]
                   /\ effects' = [effects EXCEPT ![p].transport = r.called]
              ELSE /\ pc' = [pc EXCEPT ![p] = "send_save"]
                   /\ effects' = [effects EXCEPT ![p].transport = TRUE,
                                                 ![p].message_id = mid]
                   /\ UNCHANGED result
    /\ UNCHANGED <<io_faults, call, drafts, nuuid, ncalls, created, removed, mailbox, labelIds>>

\* d = drafts[draft_id]; message_id = send_email(d["to"], d["subject"], ...)
\* An exception of send_email propagates out of send_draft.
SendTransport(p) ==
    /\ pc[p] = "send_email"
    /\ \E exists \in BOOLEAN, http \in HttpOutcomes :
        LET id == call[p].draft_id
            d == drafts[p][id]
            r == SendEmail(d.attachments, exists, http)
            mid == Len(sendLog) + 1
            entry == [draft_id |-> id, ok |-> r.raised = "none", id |-> mid,
                      in_reply_to |-> None, references |-> None,
                      message |-> ComposeMessage(d.to, d.subject, d.body, d.html_body,
                                                 d.attachments, None, None, None)]
        IN /\ sendLog' = IF r.called THEN Append(sendLog, entry) ELSE sendLog
           /\ IF r.raised # "none"
              THEN /\ result' = [result EXCEPT ![p] = Raised(r.raised)]
                   /\ pc' = [pc EXCEPT ![p] = "idle"]
                   /\ effects' = [effects EXCEPT ![p].transport = r.called]
              ELSE /\ pc' = [pc EXCEPT ![p] = "send_save"]
                   /\ effects' = [effects EXCEPT ![p].transport = TRUE,
                                                 ![p].message_id = mid]
                   /\ UNCHANGED result
    /\ UNCHANGED <<drafts_file, io_faults, call, drafts, nuuid, ncalls, created,
                   removed, mailbox, labelIds>>

\* Mutant of SendSave: the sent draft is not popped before the save.
SendSave_KeepDraft(p) ==
    /\ pc[p] = "send_save"
    /\ LET id == call[p].draft_id
           d == drafts[p][id]
       IN /\ \E o \in WriteOutcomes :
                drafts_file' = SaveDrafts(drafts_file, drafts[p], o)
          /\ result' = [result EXCEPT
                 ![p] = Returned([sent |-> TRUE, message_id |-> effects[p].message_id,
                                  to |-> d.to, subject |-> d.subject])]
          /\ removed' = removed \cup {id}
    /\ effects' = [effects EXCEPT ![p].saved = TRUE]
    /\ pc' = [pc EXCEPT ![p] = "idle"]
    /\ UNCHANGED <<io_faults, call, drafts, nuuid, ncalls, sendLog, created, mailbox, labelIds>>

\* drafts.pop(draft_id); _save_drafts(drafts); return {"sent": True, ...}
SendSave(p) ==
    /\ pc[p] = "send_save"
    /\ LET id == call[p].draft_id
           d == drafts[p][id]
           d2 == DictPop(drafts[p], id)
       IN /\ \E o \in WriteOutcomes :
                drafts_file' = SaveDrafts(drafts_file, d2, o)
          /\ drafts' = [drafts EXCEPT ![p] = d2]
          /\ result' = [result EXCEPT
                 ![p] = Returned([sent |-> TRUE, message_id |-> effects[p].message_id,
                                  to |-> d.to, subject |-> d.subject])]
          /\ removed' = removed \cup {id}
    /\ effects' = [effects EXCEPT ![p].saved = TRUE]
    /\ pc' = [pc EXCEPT ![p] = "idle"]
    /\ UNCHANGED <<io_faults, call, nuuid, ncalls, sendLog, created, mailbox, labelIds>>

-----------------------------------------------------------------------------
(* server.reply_message / forward_message and gmail_client behind them *)

\* _get_message_metadata: the headers the metadata request asks for.
MetadataHeaders(msg) ==
    [n \in (DOMAIN msg.headers)
            \cap {"Subject", "From", "To", "Date", "Message-ID", "References"} |->
        msg.headers[n]]

\* The record of one users().messages().send call.
SendEntry(to, subject, body, html_body, attachments, thread_id, in_reply_to, references, ok) ==
    [draft_id |-> 0, ok |-> ok, id |-> Len(sendLog) + 1,
     in_reply_to |-> in_reply_to, references |-> references,
     message |-> ComposeMessage(to, subject, body, html_body, attachments, thread_id,
                                in_reply_to, references)]

\* What a call of p that ends in this step leaves behind.
Finish(p, res, fetched, transport, mutated) ==
    /\ result' = [result EXCEPT ![p] = res]
    /\ effects' = [effects EXCEPT ![p].fetched = fetched, ![p].transport = transport,
                                  ![p].mutated = mutated]
    /\ pc' = [pc EXCEPT ![p] = "idle"]

\* Mutant of ReplyMessage: the confirm test comes after the reply was sent.
ReplyMessage_SendThenCheck(p) ==
    /\ pc[p] = "reply_message"
    /\ LET a == Get(call[p].input)
           h == MetadataHeaders(mailbox)
           to_address == ReplyTo(h, a.to_override)
           subject == ReplySubject(HGet(h, "Subject", <<>>))
           irt == HGetOpt(h, "Message-ID")
           refs == Some(ReplyReferences(h))
       IN /\ sendLog' = Append(sendLog,
                 SendEntry(Get(to_address), subject, a.body, a.html_body,
                           a.attachments, mailbox.threadId, irt, refs, TRUE))
          /\ IF ~call[p].confirm
             THEN Finish(p, Raised("ConfirmationRequired"), TRUE, TRUE, FALSE)
             ELSE Finish(p, Returned([sent |-> TRUE, message_id |-> Len(sendLog) + 1]),
                         TRUE, TRUE, FALSE)
    /\ UNCHANGED <<drafts_file, io_faults, call, drafts, nuuid, ncalls, mailbox,
                   labelIds, created, removed>>

\* reply_message: the confirm gate, then reply_to_message: fetch the metadata,
\* derive recipient, subject, In-Reply-To and References, send_email.
ReplyMessage(p) ==
    /\ pc[p] = "reply_message"
    /\ IF ~call[p].confirm
       THEN /\ Finish(p, Raised("ConfirmationRequired"), FALSE, FALSE, FALSE)
            /\ UNCHANGED sendLog
       ELSE \E fetch \in HttpOutcomes, exists \in BOOLEAN, http \in HttpOutcomes :
            LET a == Get(call[p].input)
                h == MetadataHeaders(mailbox)
                to_address == ReplyTo(h, a.to_override)
                subject == ReplySubject(HGet(h, "Subject", <<>>))
                irt == HGetOpt(h, "Message-ID")
                refs == Some(ReplyReferences(h))
                r == SendEmail(a.attachments, exists, http)
            IN IF fetch # "ok"
               THEN /\ Finish(p, Raised("HttpError"), TRUE, FALSE, FALSE)
                    /\ UNCHANGED sendLog
               ELSE IF ~Truthy(to_address)
               THEN /\ Finish(p, Raised("ValueError"), TRUE, FALSE, FALSE)
                    /\ UNCHANGED sendLog
               ELSE /\ sendLog' =
                          IF r.called
                          THEN Append(sendLog,
                                   SendEntry(Get(to_address), subject, a.body,
                                             a.html_body, a.attachments,
                                             mailbox.threadId, irt, refs,
                                             r.raised = "none"))
                          ELSE sendLog
                    /\ Finish(p,
                              IF r.raised = "none"
                              THEN Returned([sent |-> TRUE,
                                             message_id |-> Len(sendLog) + 1])
                              ELSE Raised(r.raised),
                              TRUE, r.called, FALSE)
    /\ UNCHANGED <<drafts_file, io_faults, call, drafts, nuuid, ncalls, mailbox,
                   labelIds, created, removed>>

\* forward_message: the confirm gate, then gmail_client.forward_message.
ForwardMessage(p) ==
    /\ pc[p] = "forward_message"
    /\ IF ~call[p].confirm
       THEN /\ Finish(p, Raised("ConfirmationRequired"), FALSE, FALSE, FALSE)
            /\ UNCHANGED sendLog
       ELSE \E fetch \in HttpOutcomes, exists \in BOOLEAN, http \in HttpOutcomes :
            LET a == Get(call[p].input)
                h == MetadataHeaders(mailbox)
                msg == [mailbox EXCEPT !.headers = h]
                subject == ForwardSubject(HGet(h, "Subject", <<>>))
                text == ForwardText(msg, a.body, a.include_snippet)
                fhtml == ForwardHtml(msg, a.html_body, a.include_snippet)
                r == SendEmail(a.attachments, exists, http)
            IN IF fetch # "ok"
               THEN /\ Finish(p, Raised("HttpError"), TRUE, FALSE, FALSE)
                    /\ UNCHANGED sendLog
               ELSE /\ sendLog' =
                          IF r.called
                          THEN Append(sendLog,
                                   SendEntry(a.to, subject, text, fhtml, a.attachments,
                                             mailbox.threadId, None, None,
                                             r.raised = "none"))
                          ELSE sendLog
                    /\ Finish(p,
                              IF r.raised = "none"
                              THEN Returned([sent |-> TRUE,
                                             message_id |-> Len(sendLog) + 1,
                                             to |-> a.to])
                              ELSE Raised(r.raised),
                              TRUE, r.called, FALSE)
    /\ UNCHANGED <<drafts_file, io_faults, call, drafts, nuuid, ncalls, mailbox,
                   labelIds, created, removed>>

-----------------------------------------------------------------------------
(* server.trash_message / modify_labels / mark_as_read / mark_as_unread *)

\* The label set after users().messages().modify with the body
\* modify_message_labels builds: a falsy list adds no key to the body.
ModifiedLabels(labels, add_labels, remove_labels) ==
    LET add == IF Truthy(add_labels)
               THEN {Get(add_labels)[i] : i \in 1..Len(Get(add_labels))} ELSE {}
        rem == IF Truthy(remove_labels)
               THEN {Get(remove_labels)[i] : i \in 1..Len(Get(remove_labels))} ELSE {}
    IN (labels \cup add) \ rem

\* gmail_client.modify_message_labels(message_id, add_labels, remove_labels)
ModifyMessageLabels(p, add_labels, remove_labels) ==
    /\ \E http \in HttpOutcomes :
        IF http = "ok"
        THEN /\ labelIds' = ModifiedLabels(labelIds, add_labels, remove_labels)
             /\ Finish(p, Returned([labelIds |-> labelIds']), FALSE, FALSE, TRUE)
        ELSE /\ Finish(p, Raised("HttpError"), FALSE, FALSE, TRUE)
             /\ UNCHANGED labelIds
    /\ UNCHANGED <<drafts_file, io_faults, call, drafts, nuuid, ncalls, sendLog,
                   mailbox, created, removed>>

\* trash_message: the confirm gate, then users().messages().trash
TrashMessage(p) ==
    /\ pc[p] = "trash_message"
    /\ IF ~call[p].confirm
       THEN /\ Finish(p, Raised("ConfirmationRequired"), FALSE, FALSE, FALSE)
            /\ UNCHANGED labelIds
       ELSE \E http \in HttpOutcomes :
            IF http = "ok"
            THEN /\ labelIds' = (labelIds \cup {"TRASH"}) \ {"INBOX"}
                 /\ Finish(p, Returned([labelIds |-> labelIds']), FALSE, FALSE, TRUE)
            ELSE /\ Finish(p, Raised("HttpError"), FALSE, FALSE, TRUE)
                 /\ UNCHANGED labelIds
    /\ UNCHANGED <<drafts_file, io_faults, call, drafts, nuuid, ncalls, sendLog,
                   mailbox, created, removed>>

\* modify_labels(message_id, add_labels, remove_labels): no confirm parameter
ModifyLabels(p) ==
    /\ pc[p] = "modify_labels"
    /\ ModifyMessageLabels(p, Get(call[p].input).add_labels,
                           Get(call[p].input).remove_labels)

\* mark_as_read(message_id): no confirm parameter
MarkAsRead(p) ==
    /\ pc[p] = "mark_as_read"
    /\ ModifyMessageLabels(p, None, Some(<<"UNREAD">>))

\* mark_as_unread(message_id): no confirm parameter
MarkAsUnread(p) ==
    /\ pc[p] = "mark_as_unread"
    /\ ModifyMessageLabels(p, Some(<<"UNREAD">>), None)

-----------------------------------------------------------------------------
(* Calls of the mail tools *)

ReplyCall(confirm, to_override) ==
    [op |-> "reply_message", draft_id |-> 0, confirm |-> confirm,
     input |-> Some([message_id |-> "m1", body |-> <<"rb">>, html_body |-> None,
                     attachments |-> None, to_override |-> to_override])]

ForwardCall(confirm, html_body, include_snippet) ==
    [op |-> "forward_message", draft_id |-> 0, confirm |-> confirm,
     input |-> Some([message_id |-> "m1", to |-> <<"f@x">>, body |-> <<"fb">>,
                     html_body |-> html_body, attachments |-> None,
                     include_snippet |-> include_snippet])]

\* Tools without a confirm parameter carry confirm = FALSE: their caller has no
\* way to give a confirmation.
MailCalls ==
    {ReplyCall(c, None) : c \in BOOLEAN}
    \cup {ForwardCall(c, None, TRUE) : c \in BOOLEAN}
    \cup {[op |-> "trash_message", draft_id |-> 0, confirm |-> c,
           input |-> Some([message_id |-> "m1"])] : c \in BOOLEAN}
    \cup {[op |-> "modify_labels", draft_id |-> 0, confirm |-> FALSE,
           input |-> Some([message_id |-> "m1", add_labels |-> a,
                           remove_labels |-> r])] :
            a \in {None, Some(<<"STARRED">>)}, r \in {None, Some(<<"INBOX">>)}}
    \cup {[op |-> o, draft_id |-> 0, confirm |-> FALSE,
           input |-> Some([message_id |-> "m1"])] :
            o \in {"mark_as_read", "mark_as_unread"}}

\* Confirmed replies and forwards, for the derivations of gmail_client.
ThreadCalls ==
    {ReplyCall(TRUE, o) : o \in {None, Some(<<"o@x">>)}}
    \cup {ForwardCall(TRUE, None, TRUE), ForwardCall(TRUE, Some(<<"<i>">>), FALSE)}

-----------------------------------------------------------------------------
(* gmail_client.get_message / get_thread: body extraction *)

\* base64.urlsafe_b64decode(data).decode("utf-8") on the data the model uses.
B64Decode(data) ==
    CASE data = "QQ==" -> "A"
      [] data = "Qg==" -> "B"
      [] data = "PGI-" -> "<b>"
      [] OTHER -> ""

RECURSIVE ExtractParts(_, _), ExtractSubparts(_, _)
\* extract_parts(part): acc holds the nonlocal body_text and body_html.  A part
\* with body data of a matching type assigns its decoded content, then the
\* subparts are walked in order.
ExtractParts(part, acc) ==
    LET acc1 == IF part.data # ""
                THEN IF part.mimeType = "text/plain"
                     THEN [acc EXCEPT !.body_text = B64Decode(part.data)]
                     ELSE IF part.mimeType = "text/html"
                     THEN [acc EXCEPT !.body_html = B64Decode(part.data)]
                     ELSE acc
                ELSE acc
    IN ExtractSubparts(part.parts, acc1)

\* for subpart in part.get("parts", []): extract_parts(subpart)
ExtractSubparts(parts, acc) ==
    IF parts = <<>> THEN acc
    ELSE ExtractSubparts(Tail(parts), ExtractParts(Head(parts), acc))

\* body_text = ""; body_html = ""; extract_parts(payload)
ExtractBodies(payload) == ExtractParts(payload, [body_text |-> "", body_html |-> ""])

\* get_message's result for one remote message.
MessageView(msg, labels, format) ==
    LET headers == IF format = "minimal" THEN EmptyDict ELSE msg.headers
        base == [id |-> "m1", threadId |-> msg.threadId, snippet |-> msg.snippet,
                 labelIds |-> labels, headers |-> headers]
    IN IF format = "full"
       THEN [id |-> base.id, threadId |-> base.threadId, snippet |-> base.snippet,
             labelIds |-> base.labelIds, headers |-> base.headers,
             body_text |-> ExtractBodies(msg.payload).body_text,
             body_html |-> ExtractBodies(msg.payload).body_html]
       ELSE base

\* get_thread's msg_data for one message of the thread (no threadId key).
ThreadMessageView(msg, labels, format) ==
    LET headers == IF format = "minimal" THEN EmptyDict ELSE msg.headers
    IN IF format = "full"
       THEN [id |-> "m1", snippet |-> msg.snippet, labelIds |-> labels,
             headers |-> headers,
             body_text |-> ExtractBodies(msg.payload).body_text,
             body_html |-> ExtractBodies(msg.payload).body_html]
       ELSE [id |-> "m1", snippet |-> msg.snippet, labelIds |-> labels,
             headers |-> headers]

\* get_message(message_id, format)
GetMessage(p) ==
    /\ pc[p] = "get_message"
    /\ \E http \in HttpOutcomes :
        IF http = "ok"
        THEN Finish(p, Returned(MessageView(mailbox, labelIds,
                                            Get(call[p].input).format)),
                    TRUE, FALSE, FALSE)
        ELSE Finish(p, Raised("HttpError"), TRUE, FALSE, FALSE)
    /\ UNCHANGED <<drafts_file, io_faults, call, drafts, nuuid, ncalls, sendLog,
                   mailbox, labelIds, created, removed>>

\* get_thread(thread_id, format): the thread of the remote message holds it alone.
GetThread(p) ==
    /\ pc[p] = "get_thread"
    /\ \E http \in HttpOutcomes :
        IF http = "ok"
        THEN Finish(p, Returned([id |-> "t1", snippet |-> mailbox.snippet,
                                 messages |-> <<ThreadMessageView(
                                     mailbox, labelIds, Get(call[p].input).format)>>]),
                    TRUE, FALSE, FALSE)
        ELSE Finish(p, Raised("HttpError"), TRUE, FALSE, FALSE)
    /\ UNCHANGED <<drafts_file, io_faults, call, drafts, nuuid, ncalls, sendLog,
                   mailbox, labelIds, created, removed>>

ViewCalls ==
    {[op |-> "get_message", draft_id |-> 0, confirm |-> FALSE,
      input |-> Some([message_id |-> "m1", format |-> f])] : f \in {"full", "metadata"}}
    \cup {[op |-> "get_thread", draft_id |-> 0, confirm |-> FALSE,
           input |-> Some([thread_id |-> "t1", format |-> "full"])]}

-----------------------------------------------------------------------------
(* Specifications *)

Init ==
    /\ drafts_file = AbsentFile
    /\ io_faults = FALSE
    /\ pc = [p \in Procs |-> "idle"]
    /\ call = [p \in Procs |-> NoCall]
    /\ drafts = [p \in Procs |-> EmptyDict]
    /\ result = [p \in Procs |-> Pending]
    /\ effects = [p \in Procs |-> NoEffects]
    /\ nuuid = 0
    /\ ncalls = 0
    /\ sendLog = <<>>
    /\ mailbox = DefaultMessage
    /\ labelIds = {"INBOX", "UNREAD"}
    /\ created = EmptyDict
    /\ removed = {}

\* One step of the draft tools on process p.
DraftStep(p) ==
    \/ Invoke(p)
    \/ DraftLoad(p)
    \/ DraftSave(p)
    \/ ListDrafts(p)
    \/ DeleteLoad(p)
    \/ DeleteSave(p)
    \/ SendGate(p)
    \/ SendLoad(p)
    \/ SendTransport(p)
    \/ SendSave(p)

\* Tool calls run concurrently, one per process, interleaved at their I/O.
Next == \E p \in Procs : DraftStep(p)

Spec == Init /\ [][Next]_vars

\* A sequential run: a tool call starts only when no other call is running.
SeqInvoke(p) == (\A q \in Procs : pc[q] = "idle") /\ Invoke(p)

SeqNext ==
    \E p \in Procs :
        \/ SeqInvoke(p)
        \/ DraftLoad(p)
        \/ DraftSave(p)
        \/ ListDrafts(p)
        \/ DeleteLoad(p)
        \/ DeleteSave(p)
        \/ SendGate(p)
        \/ SendLoad(p)
        \/ SendTransport(p)
        \/ SendSave(p)

SpecSeq == Init /\ [][SeqNext]_vars

\* A server whose reads of and writes to DRAFTS_FILE may fail, started on a
\* missing or an unparseable file.
InitIO ==
    /\ drafts_file \in {AbsentFile, [state |-> "malformed", doc |-> {}]}
    /\ io_faults = TRUE
    /\ pc = [p \in Procs |-> "idle"]
    /\ call = [p \in Procs |-> NoCall]
    /\ drafts = [p \in Procs |-> EmptyDict]
    /\ result = [p \in Procs |-> Pending]
    /\ effects = [p \in Procs |-> NoEffects]
    /\ nuuid = 0
    /\ ncalls = 0
    /\ sendLog = <<>>
    /\ mailbox = DefaultMessage
    /\ labelIds = {"INBOX", "UNREAD"}
    /\ created = EmptyDict
    /\ removed = {}

\* Sequential runs of the draft tools over failing file I/O.
SpecIO == InitIO /\ [][SeqNext]_vars

\* The process that serves the one caller of the specifications below.
Caller == CHOOSE p \in Procs : \A q \in Procs : p <= q

\* The whole tool surface, one call at a time.
ToolInvoke(p) ==
    /\ ncalls < MaxToolCalls
    /\ \E c \in DraftCalls \cup MailCalls :
        /\ c.op = "draft_email" => nuuid < MaxDrafts
        /\ Start(p, c)

ToolsNext ==
    \/ ToolInvoke(Caller)
    \/ DraftLoad(Caller)
    \/ DraftSave(Caller)
    \/ ListDrafts(Caller)
    \/ DeleteLoad(Caller)
    \/ DeleteSave(Caller)
    \/ SendGate(Caller)
    \/ SendLoad(Caller)
    \/ SendTransport(Caller)
    \/ SendSave(Caller)
    \/ ReplyMessage(Caller)
    \/ ForwardMessage(Caller)
    \/ TrashMessage(Caller)
    \/ ModifyLabels(Caller)
    \/ MarkAsRead(Caller)
    \/ MarkAsUnread(Caller)

SpecTools == Init /\ [][ToolsNext]_vars

\* All strings of at most n characters over an alphabet.
Strings(alphabet, n) == UNION {[1..k -> alphabet] : k \in 0..n}

SubjectChars == {"r", "E", ":", " ", "F", "w", "d"}
RefChars == {"a", "b", " ", "\t"}

WithHeader(headers, name, value) == DictSet(headers, name, value)
WithoutHeader(headers, name) == DictPop(headers, name)

\* Original messages that differ in their Subject header (absent, or any
\* string over SubjectChars).
SubjectCases ==
    {[DefaultMessage EXCEPT !.headers = WithoutHeader(DefaultHeaders, "Subject")]}
    \cup {[DefaultMessage EXCEPT !.headers = WithHeader(DefaultHeaders, "Subject", sub)] :
            sub \in Strings(SubjectChars, MaxSubjectLen)}

\* Original messages that differ in References (absent, or any string over
\* RefChars), in Message-ID (absent, empty, present) and in From.
RefCases ==
    LET mids == {WithoutHeader(DefaultHeaders, "Message-ID"),
                 WithHeader(DefaultHeaders, "Message-ID", <<>>),
                 DefaultHeaders,
                 WithoutHeader(DefaultHeaders, "From")}
    IN {[DefaultMessage EXCEPT !.headers = h] : h \in mids}
       \cup {[DefaultMessage EXCEPT !.headers = WithHeader(h, "References", r)] :
               h \in mids, r \in Strings(RefChars, MaxRefLen)}

\* The reply / forward derivations applied once to a drawn original message.
InitThread ==
    /\ drafts_file = AbsentFile
    /\ io_faults = FALSE
    /\ pc = [p \in Procs |-> "idle"]
    /\ call = [p \in Procs |-> NoCall]
    /\ drafts = [p \in Procs |-> EmptyDict]
    /\ result = [p \in Procs |-> Pending]
    /\ effects = [p \in Procs |-> NoEffects]
    /\ nuuid = 0
    /\ ncalls = 0
    /\ sendLog = <<>>
    /\ mailbox \in SubjectCases \cup RefCases
    /\ labelIds = {"INBOX", "UNREAD"}
    /\ created = EmptyDict
    /\ removed = {}

ThreadInvoke(p) ==
    /\ ncalls = 0
    /\ \E c \in ThreadCalls : Start(p, c)

ThreadNext ==
    \/ ThreadInvoke(Caller)
    \/ ReplyMessage(Caller)
    \/ ForwardMessage(Caller)

SpecThread == InitThread /\ [][ThreadNext]_vars

\* Sequences of at most n elements of S.
SeqsUpTo(S, n) == UNION {[1..k -> S] : k \in 0..n}

\* (mimeType, body data) of the parts the model draws.
PartKinds ==
    {<<"text/plain", "">>, <<"text/plain", "QQ==">>, <<"text/plain", "Qg==">>,
     <<"text/html", "PGI-">>, <<"multipart/alternative", "">>}

Parts0 == {[mimeType |-> k[1], data |-> k[2], parts |-> <<>>] : k \in PartKinds}

Parts1 ==
    {[mimeType |-> k[1], data |-> k[2], parts |-> ps] :
        k \in PartKinds, ps \in SeqsUpTo(Parts0, MaxParts)}

\* Part trees of depth at most two under a multipart root.
Payloads ==
    {[mimeType |-> "multipart/mixed", data |-> "", parts |-> ps] :
        ps \in SeqsUpTo(Parts1, MaxParts)}

\* get_message / get_thread applied once to a drawn part tree.
InitView ==
    /\ drafts_file = AbsentFile
    /\ io_faults = FALSE
    /\ pc = [p \in Procs |-> "idle"]
    /\ call = [p \in Procs |-> NoCall]
    /\ drafts = [p \in Procs |-> EmptyDict]
    /\ result = [p \in Procs |-> Pending]
    /\ effects = [p \in Procs |-> NoEffects]
    /\ nuuid = 0
    /\ ncalls = 0
    /\ sendLog = <<>>
    /\ mailbox \in {[DefaultMessage EXCEPT !.payload = t] : t \in Payloads}
    /\ labelIds = {"INBOX", "UNREAD"}
    /\ created = EmptyDict
    /\ removed = {}

ViewInvoke(p) ==
    /\ ncalls = 0
    /\ \E c \in ViewCalls : Start(p, c)

ViewNext ==
    \/ ViewInvoke(Caller)
    \/ GetMessage(Caller)
    \/ GetThread(Caller)

SpecView == InitView /\ [][ViewNext]_vars

-----------------------------------------------------------------------------
(* Helpers of the properties *)

HasRaised(p, e) == result[p].status = "raised" /\ result[p].error = e
HasReturned(p) == result[p].status = "returned"
AllIdle == \A p \in Procs : pc[p] = "idle"

\* Positions in sendLog of the sends of draft id that the transport accepted.
SentOk(id) == {i \in 1..Len(sendLog) : sendLog[i].draft_id = id /\ sendLog[i].ok}

\* Exceptions send_email lets out of the send path.
SendPathErrors == {"HttpError", "ValueError", "FileNotFoundError"}

\* Process p takes a step.
Moves(p) == pc'[p] # pc[p]

-----------------------------------------------------------------------------
(* Claims on the draft store *)

\* State part of C1: an unconfirmed send_draft call has done no I/O.
C1_Refused ==
    \A p \in Procs :
        (call[p].op = "send_draft" /\ ~call[p].confirm) =>
            /\ pc[p] \in {"send_gate", "idle"}
            /\ effects[p] = NoEffects
            /\ pc[p] = "idle" => HasRaised(p, "ConfirmationRequired")

\* Step part of C1: the refusing step changes neither file nor transport log.
C1_RefusalStep ==
    \A p \in Procs :
        (pc[p] = "send_gate" /\ ~call[p].confirm /\ Moves(p)) =>
            /\ drafts_file' = drafts_file
            /\ sendLog' = sendLog
            /\ drafts' = drafts

\* C1: a send_draft call with confirm not true raises the confirmation error
\* and performs no I/O at all: it never loads or saves the drafts file and never
\* calls the transport, and the step that refuses leaves the drafts file and
\* the transport log as they were.
C1_UnconfirmedSendDoesNothing == []C1_Refused /\ [][C1_RefusalStep]_vars

\* C1 witness: an unconfirmed send_draft of a draft that is in the store was refused.
C1_Witness ==
    \E p \in Procs :
        /\ call[p].op = "send_draft" /\ ~call[p].confirm /\ pc[p] = "idle"
        /\ HasRaised(p, "ConfirmationRequired")
        /\ call[p].draft_id \in Keys(Stored)

\* C2 (as claimed): no draft is accepted by the transport's send more than once.
C2_AtMostOneSend == \A id \in DraftIds : Cardinality(SentOk(id)) <= 1

\* C5 (as claimed): once every call has finished, each draft a draft_email call
\* returned is in the persisted mapping unless a delete_draft or a successful
\* send_draft of that id removed it.
C5_NoLostCreate ==
    AllIdle => \A id \in Keys(created) \ removed : id \in Keys(Stored)

\* State part of C3: no save by a failed send_draft; pop-and-save only after
\* the transport returned an id for this draft.
C3_NoWriteOnFailure ==
    \A p \in Procs :
        call[p].op = "send_draft" =>
            /\ (pc[p] = "idle" /\ result[p].status = "raised") => ~effects[p].saved
            /\ (pc[p] = "send_save" \/ effects[p].saved) =>
                   effects[p].message_id \in SentOk(call[p].draft_id)

\* Step part of C3: the failing send_email step leaves the draft stored as created.
C3_FailureStep ==
    \A p \in Procs :
        (pc[p] = "send_email" /\ pc'[p] = "idle") =>
            /\ result'[p].status = "raised" /\ result'[p].error \in SendPathErrors
            /\ drafts_file' = drafts_file
            /\ call[p].draft_id \in Keys(LoadDrafts(drafts_file', "ok"))
            /\ LoadDrafts(drafts_file', "ok")[call[p].draft_id]
                   = created[call[p].draft_id]

\* C3: a confirmed send_draft that fails on the send path (send_email raises,
\* with or without having called the transport) has written nothing: in a
\* sequential run the draft is still in the persisted store with the fields it
\* was created with; and send_draft reaches its pop-and-save only with a
\* message id the transport returned for this draft.
C3_FailedSendKeepsDraft == []C3_NoWriteOnFailure /\ [][C3_FailureStep]_vars

\* C3 witness: a send of a draft failed at the transport and a later send of
\* the same draft was accepted and removed it.
C3_Witness ==
    \E i, j \in 1..Len(sendLog) :
        /\ i < j
        /\ sendLog[i].draft_id = sendLog[j].draft_id
        /\ ~sendLog[i].ok /\ sendLog[j].ok
        /\ sendLog[j].draft_id \in removed
        /\ sendLog[j].draft_id \notin Keys(Stored)

\* State part of C4: the store holds the created, not removed drafts unchanged
\* and no removed one.
C4_StoreMatchesHistory ==
    /\ \A id \in Keys(created) \ removed :
           id \in Keys(Stored) /\ Stored[id] = created[id]
    /\ \A id \in removed : id \notin Keys(Stored)

\* Step part of C4: what draft_email, list_drafts and a send or delete of a
\* removed id return.
C4_Steps ==
    \A p \in Procs :
        /\ (pc[p] = "draft_save" /\ Moves(p)) =>
               /\ result'[p].status = "returned"
               /\ result'[p].value.draft_id \in Keys(LoadDrafts(drafts_file', "ok"))
               /\ LoadDrafts(drafts_file', "ok")[result'[p].value.draft_id]
                      = Get(call[p].input)
        /\ (pc[p] = "list_load" /\ Moves(p)) =>
               /\ result'[p].status = "returned"
               /\ \A id \in Keys(created) \ removed :
                      /\ id \in Keys(result'[p].value.drafts)
                      /\ result'[p].value.drafts[id] = created[id]
               /\ \A id \in removed : id \notin Keys(result'[p].value.drafts)
        /\ (pc[p] \in {"send_load", "delete_load"} /\ Moves(p)
               /\ call[p].draft_id \in removed) =>
               /\ pc'[p] = "idle"
               /\ result'[p].status = "raised"
               /\ result'[p].error = "DraftNotFound"

\* C4: in a sequential run, when draft_email returns id the store maps id to
\* exactly the fields given, list_drafts returns the persisted mapping (every
\* created and not yet removed draft with its fields, no removed one), a
\* removed draft is not in the store, and send_draft(confirm=true) or
\* delete_draft of a removed id fails with draft-not-found.
C4_DraftLifecycle == []C4_StoreMatchesHistory /\ [][C4_Steps]_vars

\* C4 witness: a draft was created, sent successfully, and a later confirmed
\* send_draft of the same id failed with draft-not-found.
C4_Witness ==
    \E p \in Procs :
        /\ call[p].op = "send_draft" /\ call[p].confirm /\ pc[p] = "idle"
        /\ HasRaised(p, "DraftNotFound")
        /\ call[p].draft_id \in Keys(created)
        /\ SentOk(call[p].draft_id) # {}

\* State part of C7: a call that raised draft-not-found saved and sent nothing.
C7_NotFoundDidNothing ==
    \A p \in Procs :
        (pc[p] = "idle" /\ HasRaised(p, "DraftNotFound")) =>
            ~effects[p].saved /\ ~effects[p].transport

\* Step part of C7: a load that does not find the id raises and changes nothing.
C7_NotFoundStep ==
    \A p \in Procs :
        (pc[p] \in {"delete_load", "send_load"} /\ Moves(p)
            /\ call[p].draft_id \notin Keys(Stored)) =>
            /\ pc'[p] = "idle"
            /\ result'[p].status = "raised" /\ result'[p].error = "DraftNotFound"
            /\ drafts_file' = drafts_file
            /\ sendLog' = sendLog

\* C7: delete_draft and confirmed send_draft of an id that is not in the store
\* raise draft-not-found, and a call that raised draft-not-found has not saved
\* the drafts file nor called the transport; the raising step leaves the
\* drafts file and the transport log unchanged.
C7_UnknownIdFails == []C7_NotFoundDidNothing /\ [][C7_NotFoundStep]_vars

\* C7 witness: with a draft in the store, a confirmed send_draft and a
\* delete_draft of another id have both failed with draft-not-found.
C7_Witness ==
    /\ Keys(Stored) # {}
    /\ \E p, q \in Procs :
        /\ call[p].op = "send_draft" /\ call[p].confirm /\ pc[p] = "idle"
        /\ HasRaised(p, "DraftNotFound")
        /\ call[q].op = "delete_draft" /\ pc[q] = "idle"
        /\ HasRaised(q, "DraftNotFound")

-----------------------------------------------------------------------------
(* Claims on the confirmation gate and on replies and forwards *)

StateChangingOps ==
    {"send_draft", "reply_message", "forward_message", "trash_message",
     "modify_labels", "mark_as_read", "mark_as_unread", "delete_draft"}

ConfirmGatedOps == {"send_draft", "reply_message", "forward_message", "trash_message"}

\* The call of p was refused (or is about to be) with nothing written to the
\* drafts file and no send, modify or trash call made.
Refusal(p) ==
    /\ pc[p] = "idle" => HasRaised(p, "ConfirmationRequired")
    /\ ~effects[p].saved /\ ~effects[p].transport /\ ~effects[p].mutated

\* C6 (as claimed): each of the eight state-changing or sending tools, called
\* without explicit confirmation, ends by raising, with nothing written to the
\* drafts file and no send, modify or trash call made.
C6_AllGated ==
    \A p \in Procs :
        (call[p].op \in StateChangingOps /\ ~call[p].confirm) =>
            /\ pc[p] = "idle" => result[p].status = "raised"
            /\ ~effects[p].saved /\ ~effects[p].transport /\ ~effects[p].mutated

\* C6, the part that holds: send_draft, reply_message, forward_message and trash_message
\* refuse without confirm=true, having performed no I/O at all; the other four
\* tools have no confirmation parameter and never raise the confirmation error.
C6_ConfirmGated ==
    \A p \in Procs :
        /\ (call[p].op \in ConfirmGatedOps /\ ~call[p].confirm) =>
               Refusal(p) /\ effects[p] = NoEffects
        /\ call[p].op \in StateChangingOps \ ConfirmGatedOps =>
               ~HasRaised(p, "ConfirmationRequired")

\* C6 witness: an unconfirmed reply_message was refused and nothing was sent.
C6_Witness ==
    \E p \in Procs :
        /\ call[p].op = "reply_message" /\ ~call[p].confirm /\ pc[p] = "idle"
        /\ HasRaised(p, "ConfirmationRequired")
        /\ sendLog = <<>>

\* Starts of the maximal runs of non-whitespace characters of s.
RunStarts(s) == {i \in 1..Len(s) : ~IsSpace(s[i]) /\ (i = 1 \/ IsSpace(s[i - 1]))}

\* End of the run that starts at i.
RunEnd(s, i) ==
    CHOOSE j \in i..Len(s) :
        /\ \A k \in i..j : ~IsSpace(s[k])
        /\ j = Len(s) \/ IsSpace(s[j + 1])

\* The whitespace-separated words of s, in order.
Words(s) ==
    LET starts == RunStarts(s)
        nth(k) == CHOOSE i \in starts : Cardinality({j \in starts : j <= i}) = k
    IN [k \in 1..Cardinality(starts) |-> SubSeq(s, nth(k), RunEnd(s, nth(k)))]

\* Process p has finished a call of op that reached the transport; its send is
\* the last entry of sendLog.
Sent(p, op) == call[p].op = op /\ pc[p] = "idle" /\ effects[p].transport

LastSend == sendLog[Len(sendLog)]

\* C8: the references list a reply is sent with is the words of the original
\* References header, in order, followed by the original Message-ID when it
\* exists (also when References is absent); in_reply_to is the original
\* Message-ID; the outgoing message has a References header exactly when the
\* list is not empty, and that header reads back as the list.
C8_ReplyReferenceChain ==
    \A p \in Procs :
        Sent(p, "reply_message") =>
            LET h == mailbox.headers
                mid == HGetOpt(h, "Message-ID")
                chain == Get(LastSend.references)
                out == LastSend.message.headers
            IN /\ chain = Words(HGet(h, "References", <<>>))
                          \o (IF mid # None /\ Get(mid) # <<>> THEN <<Get(mid)>>
                              ELSE <<>>)
               /\ LastSend.in_reply_to = mid
               /\ ("In-Reply-To" \in DOMAIN out) <=> (mid # None /\ Get(mid) # <<>>)
               /\ "In-Reply-To" \in DOMAIN out => out["In-Reply-To"] = Get(mid)
               /\ ("References" \in DOMAIN out) <=> (chain # <<>>)
               /\ "References" \in DOMAIN out => SplitWs(out["References"]) = chain

\* C8 witness: a reply was sent with a chain of two references of the original
\* followed by its Message-ID.
C8_Witness ==
    \E p \in Procs :
        /\ Sent(p, "reply_message") /\ LastSend.ok
        /\ Len(Get(LastSend.references)) = 3
        /\ Get(LastSend.references)[3] = mailbox.headers["Message-ID"]

\* s starts with marker, compared case-insensitively.
HasPrefixCI(s, marker) ==
    Len(s) >= Len(marker) /\ \A i \in 1..Len(marker) : LowerChar(s[i]) = marker[i]

IsTrimmed(s) == s = <<>> \/ (~IsSpace(s[1]) /\ ~IsSpace(s[Len(s)]))

\* out is full cut after its last non-whitespace character.
IsRightTrimOf(out, full) ==
    /\ IsTrimmed(out)
    /\ \E n \in 0..Len(full) :
        /\ out = SubSeq(full, 1, n)
        /\ \A k \in (n + 1)..Len(full) : IsSpace(full[k])

\* out is orig when orig already starts with marker, else prefix + orig trimmed.
Prefixed(orig, out, prefix, marker) ==
    IF HasPrefixCI(orig, marker) THEN out = orig
    ELSE IsRightTrimOf(out, prefix \o orig)

OrigSubject == HGet(mailbox.headers, "Subject", <<>>)

\* C9 (as claimed): the subject of a reply (forward) is the original subject
\* with Re: (Fwd:) added only if it does not already start with it,
\* case-insensitively; the result is always trimmed; prefixing the result again
\* changes nothing.
C9_AsClaimed ==
    \A p \in Procs :
        /\ Sent(p, "reply_message") =>
            LET out == LastSend.message.headers["Subject"]
            IN /\ Prefixed(OrigSubject, out, RePrefix, <<"r", "e", ":">>)
               /\ IsTrimmed(out)
               /\ ReplySubject(out) = out
        /\ Sent(p, "forward_message") =>
            LET out == LastSend.message.headers["Subject"]
            IN /\ Prefixed(OrigSubject, out, FwdPrefix, <<"f", "w", "d", ":">>)
               /\ IsTrimmed(out)
               /\ ForwardSubject(out) = out

\* C9 (amended): as claimed, but the result is trimmed only when the prefix is
\* added; a subject that already starts with the prefix is sent exactly as it
\* is, trailing whitespace included.
C9_PrefixOnce ==
    \A p \in Procs :
        /\ Sent(p, "reply_message") =>
            LET out == LastSend.message.headers["Subject"]
            IN /\ Prefixed(OrigSubject, out, RePrefix, <<"r", "e", ":">>)
               /\ HasPrefixCI(out, <<"r", "e", ":">>)
               /\ ReplySubject(out) = out
        /\ Sent(p, "forward_message") =>
            LET out == LastSend.message.headers["Subject"]
            IN /\ Prefixed(OrigSubject, out, FwdPrefix, <<"f", "w", "d", ":">>)
               /\ HasPrefixCI(out, <<"f", "w", "d", ":">>)
               /\ ForwardSubject(out) = out

\* C9 witness: a reply to a subject that already has the prefix in another case
\* and ends in whitespace was sent with that subject unchanged.
C9_Witness ==
    \E p \in Procs :
        /\ Sent(p, "reply_message") /\ LastSend.ok
        /\ HasPrefixCI(OrigSubject, <<"r", "e", ":">>)
        /\ ~IsTrimmed(OrigSubject)
        /\ LastSend.message.headers["Subject"] = OrigSubject

-----------------------------------------------------------------------------
(* Claims on body extraction *)

RECURSIVE Preorder(_), PreorderAll(_)
\* The parts of a tree in depth-first order, a part before its subparts.
Preorder(part) == <<part>> \o PreorderAll(part.parts)

PreorderAll(parts) ==
    IF parts = <<>> THEN <<>> ELSE Preorder(Head(parts)) \o PreorderAll(Tail(parts))

\* The decoded content of the first part of the given type that has content.
FirstContent(payload, mime) ==
    LET l == Preorder(payload)
        hits == {i \in 1..Len(l) : l[i].mimeType = mime /\ l[i].data # ""}
    IN IF hits = {} THEN ""
       ELSE B64Decode(l[CHOOSE i \in hits : \A j \in hits : i <= j].data)

\* C10 (as claimed): for a message fetched in full format, body_text is the
\* content of the first text/plain part and body_html that of the first
\* text/html part of a depth-first walk of the part tree.
C10_FirstPartWins ==
    \A p \in Procs :
        (pc[p] = "idle" /\ HasReturned(p) /\ call[p].op \in {"get_message", "get_thread"}
            /\ Get(call[p].input).format = "full") =>
            LET view == IF call[p].op = "get_message" THEN result[p].value
                        ELSE result[p].value.messages[1]
            IN /\ view.body_text = FirstContent(mailbox.payload, "text/plain")
               /\ view.body_html = FirstContent(mailbox.payload, "text/html")

-----------------------------------------------------------------------------
(* Claims on the frame of the store mutations *)

\* The persisted mapping after the step.
StoredNext == LoadDrafts(drafts_file', "ok")

\* Every draft of the persisted mapping other than id is still there after the
\* step, with the same fields.
OthersKept(id) ==
    \A k \in Keys(Stored) \ {id} : k \in Keys(StoredNext) /\ StoredNext[k] = Stored[k]

\* The step removes exactly the entry of id.
RemovesOnly(id) ==
    /\ Keys(StoredNext) = Keys(Stored) \ {id}
    /\ OthersKept(id)

\* C11 (as claimed): each store mutation changes exactly its own entry of the
\* persisted mapping.  The step in which draft_email writes adds one entry,
\* under an id that was not in the store, with the fields given, and keeps every
\* other draft unchanged; the step in which delete_draft or a successful
\* send_draft writes removes exactly the entry of its id; every other step
\* (list_drafts among them) leaves the persisted mapping as it was.
C11_OwnEntryOnly ==
    [][\A p \in Procs :
          Moves(p) =>
              CASE pc[p] = "draft_save" ->
                       LET id == result'[p].value.draft_id
                       IN /\ id \notin Keys(Stored)
                          /\ Keys(StoredNext) = Keys(Stored) \cup {id}
                          /\ StoredNext[id] = Get(call[p].input)
                          /\ OthersKept(id)
                [] pc[p] \in {"delete_save", "send_save"} ->
                       RemovesOnly(call[p].draft_id)
                [] OTHER -> StoredNext = Stored]_vars

\* C12 (as claimed): removal is permanent.  Once delete_draft or a successful
\* send_draft has removed a draft from the persisted mapping, no later step of
\* any call puts its id back into the mapping, and the transport accepts no
\* further send of it.
C12_RemovalPermanent ==
    [][\A id \in DraftIds :
          (id \in removed /\ id \notin Keys(Stored)) =>
              /\ id \notin Keys(StoredNext)
              /\ SentOk(id)' = SentOk(id)]_vars

-----------------------------------------------------------------------------
(* Claim on success results over failing file I/O *)

\* C13 (as claimed): a success result reflects the persisted store also when
\* reading or writing the drafts file can fail.  When draft_email returns a
\* draft_id the draft is in the persisted mapping with the fields given; when
\* delete_draft returns deleted=true or send_draft returns sent=true the draft
\* is not in the persisted mapping; and the write of a mutation removes no
\* draft other than its own target.
C13_SuccessReflectsStore ==
    [][\A p \in Procs :
          (Moves(p) /\ result'[p].status = "returned") =>
              CASE pc[p] = "draft_save" ->
                       LET id == result'[p].value.draft_id
                       IN /\ id \in Keys(StoredNext)
                          /\ StoredNext[id] = Get(call[p].input)
                          /\ OthersKept(id)
                [] pc[p] \in {"delete_save", "send_save"} ->
                       /\ call[p].draft_id \notin Keys(StoredNext)
                       /\ OthersKept(call[p].draft_id)
                [] OTHER -> TRUE]_vars

====
